---- MODULE Spec2Model ----
(***************************************************************************)
(* Segwit v0 output descriptors (src/descriptor/segwitv0.rs): the Wsh and  *)
(* Wpkh descriptor types, their constructors, parsers, key translation,   *)
(* script projections, satisfaction and weight estimation.                 *)
(*                                                                         *)
(* Strings are sequences of lexemes, scripts are sequences of opcodes with *)
(* their byte lengths, witnesses are sequences of stack items.             *)
(***************************************************************************)
EXTENDS Integers, Sequences, FiniteSets, TLC

\* ------------------------------------------------------------------ bounds
\* longest key list of a sortedmulti the model enumerates
MaxPks == 2
\* shortest signature (DER + sighash byte) a signature source hands out
MinSigLen == 71

\* --------------------------------------------------------- program constants
\* the per-signature byte count the miniscript size estimators use
SigSatSize == 73

\* ------------------------------------------------------------------- results
Ok(v) == [ok |-> TRUE, val |-> v]
Err(e) == [ok |-> FALSE, err |-> e]
Error(kind, name, nargs) == [kind |-> kind, name |-> name, nargs |-> nargs]
Panic(msg) == [ok |-> FALSE, panic |-> msg]
IsPanic(r) == "panic" \in DOMAIN r
IsErr(r) == "err" \in DOMAIN r

\* ---------------------------------------------------------------------- keys
Keys == {"K1", "K2", "U1"}
is_uncompressed(pk) == pk = "U1"
KeyToString(pk) ==
  CASE pk = "K1" -> "02a1"
    [] pk = "K2" -> "03b2"
    [] pk = "U1" -> "04c3"
KeyFromStr(t) ==
  IF \E k \in Keys : KeyToString(k) = t
  THEN Ok(CHOOSE k \in Keys : KeyToString(k) = t)
  ELSE Err(Error("Unexpected", t, 0))
\* bytes of pk.to_public_key().to_bytes()
to_public_key_len(pk) == IF is_uncompressed(pk) THEN 65 ELSE 33
\* Segwitv0::pk_len: the bytes a key push takes inside a script
pk_len(pk) == 34
\* the error a failing key map returns
KeyMapErr(pk) == Err([kind |-> "KeyMap", name |-> KeyToString(pk), nargs |-> 0])

\* ------------------------------------------------------------------- helpers
RECURSIVE SumSeq(_)
SumSeq(s) == IF s = <<>> THEN 0 ELSE Head(s) + SumSeq(Tail(s))
RECURSIVE Flatten(_)
Flatten(ss) == IF ss = <<>> THEN <<>> ELSE Head(ss) \o Flatten(Tail(ss))
SeqsUpTo(S, n) == UNION {[1..m -> S] : m \in 1..n}
\* util::varint_len: bytes of a compact-size integer (sizes here stay far
\* below the 32-bit boundary, above which it takes 9 bytes)
varint_len(n) == IF n <= 252 THEN 1 ELSE IF n <= 65535 THEN 3 ELSE 5

\* ------------------------------------------------------------------- strings
\* a string is a sequence of lexemes; the lexemes the descriptors are made of
Lexemes == <<"(", ")", ",", "#", "wsh", "wpkh", "sortedmulti", "sh", "pk", "v:pk",
             "and_v", "02a1", "03b2", "04c3", "0", "1", "2", "3", "4", "5",
             "q", "p", "z", "r">>
Punct == {"(", ")", ",", "#"}
Digits == <<"0", "1", "2", "3", "4", "5">>
NumToString(n) == Digits[n + 1]
parse_num(t) ==
  IF \E i \in 1..Len(Digits) : Digits[i] = t
  THEN Ok((CHOOSE i \in 1..Len(Digits) : Digits[i] = t) - 1)
  ELSE Err(Error("Unexpected", t, 0))

LexCode(t) == CHOOSE i \in 1..Len(Lexemes) : Lexemes[i] = t
ChecksumCharset == <<"q", "p", "z", "r">>
RECURSIVE PolyMod(_, _)
PolyMod(s, c) ==
  IF s = <<>> THEN c
  ELSE PolyMod(Tail(s), (c * 5 + LexCode(Head(s))) % 16)
\* checksum::desc_checksum: a digest of the text, as characters of the charset
desc_checksum(s) ==
  IF \E i \in 1..Len(s) : s[i] \notin {Lexemes[j] : j \in 1..Len(Lexemes)}
  THEN Err(Error("BadDescriptor", "Invalid character", 0))
  ELSE LET c == PolyMod(s, 1)
       IN Ok(<<ChecksumCharset[(c \div 4) + 1], ChecksumCharset[(c % 4) + 1]>>)

FirstHash(s) ==
  IF \E i \in 1..Len(s) : s[i] = "#"
  THEN CHOOSE i \in 1..Len(s) : s[i] = "#" /\ \A j \in 1..(i - 1) : s[j] # "#"
  ELSE 0
\* checksum::verify_checksum: the text before '#', once the suffix matches
verify_checksum(s) ==
  LET h == FirstHash(s)
      desc_str == IF h = 0 THEN s ELSE SubSeq(s, 1, h - 1)
      checksum_str == SubSeq(s, h + 1, Len(s))
      expected == desc_checksum(desc_str)
  IN IF h = 0 THEN Ok(desc_str)
     ELSE IF ~expected.ok THEN expected
     ELSE IF checksum_str # expected.val
          THEN Err(Error("BadDescriptor", "Invalid checksum", 0))
          ELSE Ok(desc_str)

\* ---------------------------------------------------------- expression trees
NoTree == [name |-> "", args |-> <<>>]
ParseFail == [ok |-> FALSE, tree |-> NoTree, args |-> <<>>, next |-> 0]
RECURSIVE ParseExpr(_, _)
RECURSIVE ParseArgs(_, _, _)
ParseExpr(s, i) ==
  IF i > Len(s) \/ s[i] \in Punct THEN ParseFail
  ELSE IF i + 1 <= Len(s) /\ s[i + 1] = "("
       THEN LET r == ParseArgs(s, i + 2, <<>>)
            IN IF r.ok
               THEN [ok |-> TRUE, tree |-> [name |-> s[i], args |-> r.args],
                     args |-> <<>>, next |-> r.next]
               ELSE ParseFail
       ELSE [ok |-> TRUE, tree |-> [name |-> s[i], args |-> <<>>],
             args |-> <<>>, next |-> i + 1]
ParseArgs(s, i, acc) ==
  LET e == ParseExpr(s, i)
  IN IF ~e.ok \/ e.next > Len(s) THEN ParseFail
     ELSE IF s[e.next] = "," THEN ParseArgs(s, e.next + 1, Append(acc, e.tree))
     ELSE IF s[e.next] = ")"
          THEN [ok |-> TRUE, tree |-> NoTree, args |-> Append(acc, e.tree),
                next |-> e.next + 1]
          ELSE ParseFail
\* expression::Tree::from_str
Tree_from_str(s) ==
  LET r == ParseExpr(s, 1)
  IN IF r.ok /\ r.next = Len(s) + 1 THEN Ok(r.tree)
     ELSE Err(Error("Unexpected", "expression", 0))
\* expression::terminal with Pk::from_str as the conversion
terminal(term) ==
  IF term.args = <<>> THEN KeyFromStr(term.name)
  ELSE Err(Error("Unexpected", term.name, Len(term.args)))
Leaf(name) == [name |-> name, args |-> <<>>]
Node(name, args) == [name |-> name, args |-> args]

\* ------------------------------------------------------- scripts, witnesses
Op(name) == [op |-> name, arg |-> "", len |-> 1]
PushKey(pk) == [op |-> "PUSHKEY", arg |-> pk, len |-> 1 + to_public_key_len(pk)]
PushHash160(pk) == [op |-> "PUSH_HASH160", arg |-> pk, len |-> 21]
PushNum(n) == [op |-> "PUSHNUM", arg |-> NumToString(n), len |-> 1]
ScriptLen(script) == SumSeq([i \in 1..Len(script) |-> script[i].len])
\* Address::p2wpkh(pk, _).script_pubkey(); fails on an uncompressed key
p2wpkh(pk) ==
  IF is_uncompressed(pk) THEN Err(Error("UncompressedPubkey", KeyToString(pk), 0))
  ELSE Ok(<<Op("OP_0"), PushHash160(pk)>>)
\* Address::p2pkh(pk, _).script_pubkey()
p2pkh(pk) ==
  <<Op("OP_DUP"), Op("OP_HASH160"), PushHash160(pk), Op("OP_EQUALVERIFY"),
    Op("OP_CHECKSIG")>>

\* a witness stack item: what it is, whose it is, its bytes
Item(kind, key, len, script) == [kind |-> kind, key |-> key, len |-> len, script |-> script]
SigItem(pk, len) == Item("sig", pk, len, <<>>)
KeyItem(pk) == Item("pubkey", pk, to_public_key_len(pk), <<>>)
ScriptItem(script) == Item("script", "", ScriptLen(script), script)
EmptyItem == Item("empty", "", 0, <<>>)
\* serialized size of a witness: item count, then each item length-prefixed
WitnessSize(witness) ==
  varint_len(Len(witness))
  + SumSeq([i \in 1..Len(witness) |-> varint_len(witness[i].len) + witness[i].len])

\* a signature source: for each key, the length of its signature, 0 for none
lookup_ecdsa_sig(satisfier, pk) ==
  IF satisfier[pk] = 0 THEN [some |-> FALSE, sig |-> EmptyItem]
  ELSE [some |-> TRUE, sig |-> SigItem(pk, satisfier[pk])]

\* ---------------------------------------------------------------- Miniscript
Ms(frag, key, subs) == [frag |-> frag, key |-> key, subs |-> subs]
NoMs == Ms("", "", <<>>)
RECURSIVE MsType(_)
MsType(ms) ==
  CASE ms.frag = "pk" -> "B"
    [] ms.frag = "v:pk" -> "V"
    [] ms.frag = "and_v" ->
         IF MsType(ms.subs[1]) = "V" /\ MsType(ms.subs[2]) \in {"B", "V"}
         THEN MsType(ms.subs[2]) ELSE "none"
    [] OTHER -> "none"
RECURSIVE MsKeys(_)
MsKeys(ms) ==
  IF ms.subs = <<>> THEN <<ms.key>>
  ELSE Flatten([i \in 1..Len(ms.subs) |-> MsKeys(ms.subs[i])])
RECURSIVE MsToString(_)
MsToString(ms) ==
  IF ms.subs = <<>> THEN <<ms.frag, "(", KeyToString(ms.key), ")">>
  ELSE <<ms.frag, "(">> \o MsToString(ms.subs[1]) \o <<",">>
       \o MsToString(ms.subs[2]) \o <<")">>
RECURSIVE Miniscript_from_tree(_)
Miniscript_from_tree(top) ==
  IF top.name \in {"pk", "v:pk"} /\ Len(top.args) = 1
  THEN LET r == terminal(top.args[1])
       IN IF ~r.ok THEN r
          ELSE IF is_uncompressed(r.val)
               THEN Err(Error("CompressedOnly", KeyToString(r.val), 0))
               ELSE Ok(Ms(top.name, r.val, <<>>))
  ELSE IF top.name = "and_v" /\ Len(top.args) = 2
  THEN LET l == Miniscript_from_tree(top.args[1])
           r == Miniscript_from_tree(top.args[2])
       IN IF ~l.ok THEN l
          ELSE IF ~r.ok THEN r
          ELSE IF MsType(Ms("and_v", "", <<l.val, r.val>>)) = "none"
               THEN Err(Error("TypeCheck", top.name, Len(top.args)))
               ELSE Ok(Ms("and_v", "", <<l.val, r.val>>))
  ELSE Err(Error("Unexpected", top.name, Len(top.args)))
\* Segwitv0::top_level_checks: the top of a witness script has type B
top_level_checks(ms) ==
  IF MsType(ms) = "B" THEN Ok("unit")
  ELSE Err(Error("NonTopLevel", ms.frag, Len(ms.subs)))
RECURSIVE Ms_translate_pk(_, _)
Ms_translate_pk(ms, fpk) ==
  IF ms.subs = <<>>
  THEN IF fpk[ms.key] = "err" THEN KeyMapErr(ms.key)
       ELSE Ok(Ms(ms.frag, fpk[ms.key], <<>>))
  ELSE LET l == Ms_translate_pk(ms.subs[1], fpk)
           r == Ms_translate_pk(ms.subs[2], fpk)
       IN IF ~l.ok THEN l ELSE IF ~r.ok THEN r
          ELSE Ok(Ms(ms.frag, "", <<l.val, r.val>>))
RECURSIVE Ms_encode(_)
Ms_encode(ms) ==
  CASE ms.frag = "pk" -> <<PushKey(ms.key), Op("OP_CHECKSIG")>>
    [] ms.frag = "v:pk" -> <<PushKey(ms.key), Op("OP_CHECKSIGVERIFY")>>
    [] OTHER -> Ms_encode(ms.subs[1]) \o Ms_encode(ms.subs[2])
RECURSIVE Ms_script_size(_)
Ms_script_size(ms) ==
  IF ms.subs = <<>> THEN pk_len(ms.key) + 1
  ELSE Ms_script_size(ms.subs[1]) + Ms_script_size(ms.subs[2])
\* the stack a script tree needs: the right operand's items first (they are
\* consumed last), one signature per key
RECURSIVE Ms_satisfy(_, _)
Ms_satisfy(ms, satisfier) ==
  IF ms.subs = <<>>
  THEN LET s == lookup_ecdsa_sig(satisfier, ms.key)
       IN IF s.some THEN Ok(<<s.sig>>)
          ELSE Err(Error("CouldNotSatisfy", "", 0))
  ELSE LET l == Ms_satisfy(ms.subs[1], satisfier)
           r == Ms_satisfy(ms.subs[2], satisfier)
       IN IF ~l.ok THEN l ELSE IF ~r.ok THEN r ELSE Ok(r.val \o l.val)
\* the malleable algorithm admits the same stacks for these fragments
Ms_satisfy_malleable(ms, satisfier) == Ms_satisfy(ms, satisfier)
Ms_max_satisfaction_witness_elements(ms) == Ok(Len(MsKeys(ms)) + 1)
Ms_max_satisfaction_size(ms) == Ok(SigSatSize * Len(MsKeys(ms)))
Ms_sanity_check(ms) ==
  IF \E i \in 1..Len(MsKeys(ms)) : is_uncompressed(MsKeys(ms)[i])
  THEN Err(Error("CompressedOnly", "", 0))
  ELSE Ok("unit")

\* ----------------------------------------------------------- SortedMultiVec
Smv(k, pks) == [k |-> k, pks |-> pks]
NoSmv == Smv(0, <<>>)
SortedMultiVec_new(k, pks) ==
  IF k = 0 \/ k > Len(pks) THEN Err(Error("BadDescriptor", "threshold", Len(pks)))
  ELSE IF \E i \in 1..Len(pks) : is_uncompressed(pks[i])
       THEN Err(Error("CompressedOnly", "", 0))
       ELSE Ok(Smv(k, pks))
SortedMultiVec_from_tree(tree) ==
  IF tree.args = <<>> THEN Err(Error("Unexpected", "no arguments given", 0))
  ELSE LET k == parse_num(tree.args[1].name)
           subs == Tail(tree.args)
           pks == [i \in 1..Len(subs) |-> terminal(subs[i])]
       IN IF ~k.ok THEN k
          ELSE IF k.val > Len(subs)
               THEN Err(Error("Unexpected", "higher threshold than there were keys", 0))
          ELSE IF \E i \in 1..Len(subs) : ~pks[i].ok
               THEN pks[CHOOSE i \in 1..Len(subs) :
                          ~pks[i].ok /\ \A j \in 1..(i - 1) : pks[j].ok]
               ELSE SortedMultiVec_new(k.val, [i \in 1..Len(subs) |-> pks[i].val])
RECURSIVE JoinKeys(_)
JoinKeys(pks) ==
  IF pks = <<>> THEN <<>> ELSE <<",", KeyToString(Head(pks))>> \o JoinKeys(Tail(pks))
SmvToString(smv) ==
  <<"sortedmulti", "(", NumToString(smv.k)>> \o JoinKeys(smv.pks) \o <<")">>
KeyRank(pk) == CASE pk = "K1" -> 1 [] pk = "K2" -> 2 [] pk = "U1" -> 3
RECURSIVE Insert(_, _)
Insert(pk, sorted) ==
  IF sorted = <<>> THEN <<pk>>
  ELSE IF KeyRank(pk) <= KeyRank(Head(sorted)) THEN <<pk>> \o sorted
  ELSE <<Head(sorted)>> \o Insert(pk, Tail(sorted))
RECURSIVE SortKeys(_)
SortKeys(pks) == IF pks = <<>> THEN <<>> ELSE Insert(Head(pks), SortKeys(Tail(pks)))
Smv_encode(smv) ==
  LET sorted == SortKeys(smv.pks)
  IN <<PushNum(smv.k)>> \o [i \in 1..Len(sorted) |-> PushKey(sorted[i])]
     \o <<PushNum(Len(smv.pks)), Op("OP_CHECKMULTISIG")>>
Smv_script_size(smv) ==
  1 + SumSeq([i \in 1..Len(smv.pks) |-> pk_len(smv.pks[i])]) + 1 + 1
RECURSIVE TakeSigs(_, _, _)
TakeSigs(pks, satisfier, n) ==
  IF n = 0 \/ pks = <<>> THEN <<>>
  ELSE IF lookup_ecdsa_sig(satisfier, Head(pks)).some
       THEN <<lookup_ecdsa_sig(satisfier, Head(pks)).sig>>
            \o TakeSigs(Tail(pks), satisfier, n - 1)
       ELSE TakeSigs(Tail(pks), satisfier, n)
Smv_satisfy(smv, satisfier) ==
  LET sigs == TakeSigs(SortKeys(smv.pks), satisfier, smv.k)
  IN IF Len(sigs) < smv.k THEN Err(Error("CouldNotSatisfy", "", 0))
     ELSE Ok(<<EmptyItem>> \o sigs)
Smv_max_satisfaction_witness_elements(smv) == 2 + smv.k
Smv_max_satisfaction_size(smv) == 1 + SigSatSize * smv.k
Smv_sanity_check(smv) ==
  IF \E i \in 1..Len(smv.pks) : is_uncompressed(smv.pks[i])
  THEN Err(Error("CompressedOnly", "", 0))
  ELSE Ok("unit")
Smv_translate_pk(smv, fpk) ==
  IF \E i \in 1..Len(smv.pks) : fpk[smv.pks[i]] = "err"
  THEN KeyMapErr(smv.pks[CHOOSE i \in 1..Len(smv.pks) :
                   fpk[smv.pks[i]] = "err"
                   /\ \A j \in 1..(i - 1) : fpk[smv.pks[j]] # "err"])
  ELSE Ok(Smv(smv.k, [i \in 1..Len(smv.pks) |-> fpk[smv.pks[i]]]))

\* ======================================================== the descriptors
\* an operation's outcome together with the collaborator calls it made
Traced(out, calls) == [out |-> out, calls |-> calls]

\* ---------------------------------------------------------------------- Wpkh
MkWpkh(pk) == [pk |-> pk]

\* a constructor that forgets the compressed-only check
Wpkh_new_unchecked(pk) == Ok(MkWpkh(pk))

Wpkh_new(pk) ==
  IF is_uncompressed(pk)
  THEN Err(Error("CompressedOnly", KeyToString(pk), 0))
  ELSE Ok(MkWpkh(pk))

Wpkh_to_string_no_checksum(self) == <<"wpkh", "(", KeyToString(self.pk), ")">>

Wpkh_sanity_check(self) ==
  IF is_uncompressed(self.pk)
  THEN Err(Error("CompressedOnly", KeyToString(self.pk), 0))
  ELSE Ok("unit")

Wpkh_spk(self) ==
  LET addr == p2wpkh(self.pk)
  IN IF addr.ok THEN Ok(addr.val) ELSE Panic("wpkh descriptors have compressed keys")

Wpkh_inner_script(self) == Wpkh_spk(self)

\* the witness program substituted for the legacy script
Wpkh_script_code_is_spk(self) == Wpkh_spk(self)

Wpkh_ecdsa_sighash_script_code(self) == Ok(p2pkh(self.pk))

Wpkh_fmt(self) ==
  LET desc == Wpkh_to_string_no_checksum(self)
      checksum == desc_checksum(desc)
  IN IF ~checksum.ok THEN Err(Error("fmt::Error", "", 0))
     ELSE Ok(desc \o <<"#">> \o checksum.val)

\* a parser that does not count the arguments
Wpkh_from_tree_any_arity(top) ==
  IF top.name = "wpkh" /\ Len(top.args) >= 1
  THEN LET pk == terminal(top.args[1])
       IN IF ~pk.ok THEN pk ELSE Wpkh_new(pk.val)
  ELSE Err(Error("Unexpected", top.name, Len(top.args)))

Wpkh_from_tree(top) ==
  IF top.name = "wpkh" /\ Len(top.args) = 1
  THEN LET pk == terminal(top.args[1])
       IN IF ~pk.ok THEN pk ELSE Wpkh_new(pk.val)
  ELSE Err(Error("Unexpected", top.name, Len(top.args)))

Wpkh_from_str(s) ==
  LET desc_str == verify_checksum(s)
      top == Tree_from_str(desc_str.val)
  IN IF ~desc_str.ok THEN Traced(desc_str, <<"verify_checksum">>)
     ELSE IF ~top.ok THEN Traced(top, <<"verify_checksum", "Tree::from_str">>)
     ELSE Traced(Wpkh_from_tree(top.val),
                 <<"verify_checksum", "Tree::from_str", "from_tree">>)

Wpkh_script_pubkey(self) == Wpkh_spk(self)

Wpkh_explicit_script(self) == Wpkh_inner_script(self)

\* a satisfaction that succeeds with the key alone when there is no signature
Wpkh_get_satisfaction_lenient(self, satisfier) ==
  LET sig == lookup_ecdsa_sig(satisfier, self.pk)
  IN IF sig.some
     THEN Ok([witness |-> <<sig.sig, KeyItem(self.pk)>>, script_sig |-> <<>>])
     ELSE Ok([witness |-> <<KeyItem(self.pk)>>, script_sig |-> <<>>])

Wpkh_get_satisfaction(self, satisfier) ==
  LET sig == lookup_ecdsa_sig(satisfier, self.pk)
  IN IF sig.some
     THEN Ok([witness |-> <<sig.sig, KeyItem(self.pk)>>, script_sig |-> <<>>])
     ELSE Err(Error("MissingSig", KeyToString(self.pk), 0))

Wpkh_get_satisfaction_mall(self, satisfier) == Wpkh_get_satisfaction(self, satisfier)

\* an estimate that is one byte short
Wpkh_max_satisfaction_weight_short(self) == Ok(4 + 1 + 72 + pk_len(self.pk))

Wpkh_max_satisfaction_weight(self) == Ok(4 + 1 + 73 + pk_len(self.pk))

Wpkh_script_code(self) == Wpkh_ecdsa_sighash_script_code(self)

\* a translation that wraps the mapped key without going through the constructor
Wpkh_translate_pk_unchecked(self, fpk, fpkh) ==
  IF fpk[self.pk] = "err" THEN Traced(KeyMapErr(self.pk), <<"fpk">>)
  ELSE Traced(Ok(MkWpkh(fpk[self.pk])), <<"fpk">>)

Wpkh_translate_pk(self, fpk, fpkh) ==
  IF fpk[self.pk] = "err" THEN Traced(KeyMapErr(self.pk), <<"fpk">>)
  ELSE LET r == Wpkh_new(fpk[self.pk])
       IN IF r.ok THEN Traced(r, <<"fpk">>)
          ELSE Traced(Panic("Uncompressed keys in Wpkh"), <<"fpk">>)

\* ----------------------------------------------------------------------- Wsh
WshInner_Ms(ms) == [tag |-> "Ms", ms |-> ms, smv |-> NoSmv]
WshInner_SortedMulti(smv) == [tag |-> "SortedMulti", ms |-> NoMs, smv |-> smv]
MkWsh(inner) == [inner |-> inner]

\* a constructor that skips the top-level checks
Wsh_new_unchecked(ms) == Traced(Ok(MkWsh(WshInner_Ms(ms))), <<>>)

Wsh_new(ms) ==
  LET c == top_level_checks(ms)
  IN IF ~c.ok THEN Traced(c, <<"top_level_checks">>)
     ELSE Traced(Ok(MkWsh(WshInner_Ms(ms))), <<"top_level_checks">>)

Wsh_new_sortedmulti(k, pks) ==
  LET smv == SortedMultiVec_new(k, pks)
  IN IF ~smv.ok THEN smv ELSE Ok(MkWsh(WshInner_SortedMulti(smv.val)))

Wsh_to_string_no_checksum(self) ==
  IF self.inner.tag = "SortedMulti"
  THEN <<"wsh", "(">> \o SmvToString(self.inner.smv) \o <<")">>
  ELSE <<"wsh", "(">> \o MsToString(self.inner.ms) \o <<")">>

Wsh_sanity_check(self) ==
  IF self.inner.tag = "SortedMulti"
  THEN Smv_sanity_check(self.inner.smv)
  ELSE Ms_sanity_check(self.inner.ms)

Wsh_inner_script(self) ==
  IF self.inner.tag = "SortedMulti"
  THEN Ok(Smv_encode(self.inner.smv))
  ELSE Ok(Ms_encode(self.inner.ms))

Wsh_ecdsa_sighash_script_code(self) == Wsh_inner_script(self)

\* a parser without the sortedmulti special case
Wsh_from_tree_no_sortedmulti(top) ==
  IF top.name = "wsh" /\ Len(top.args) = 1
  THEN LET sub == Miniscript_from_tree(top.args[1])
           c == top_level_checks(sub.val)
       IN IF ~sub.ok THEN Traced(sub, <<"Miniscript::from_tree">>)
          ELSE IF ~c.ok
               THEN Traced(c, <<"Miniscript::from_tree", "top_level_checks">>)
               ELSE Traced(Ok(MkWsh(WshInner_Ms(sub.val))),
                           <<"Miniscript::from_tree", "top_level_checks">>)
  ELSE Traced(Err(Error("Unexpected", top.name, Len(top.args))), <<>>)

Wsh_from_tree(top) ==
  IF top.name = "wsh" /\ Len(top.args) = 1
  THEN LET arg == top.args[1]
           smv == SortedMultiVec_from_tree(arg)
           sub == Miniscript_from_tree(arg)
           c == top_level_checks(sub.val)
       IN IF arg.name = "sortedmulti"
          THEN IF ~smv.ok THEN Traced(smv, <<"SortedMultiVec::from_tree">>)
               ELSE Traced(Ok(MkWsh(WshInner_SortedMulti(smv.val))),
                           <<"SortedMultiVec::from_tree">>)
          ELSE IF ~sub.ok THEN Traced(sub, <<"Miniscript::from_tree">>)
          ELSE IF ~c.ok
               THEN Traced(c, <<"Miniscript::from_tree", "top_level_checks">>)
               ELSE Traced(Ok(MkWsh(WshInner_Ms(sub.val))),
                           <<"Miniscript::from_tree", "top_level_checks">>)
  ELSE Traced(Err(Error("Unexpected", top.name, Len(top.args))), <<>>)

Wsh_fmt(self) ==
  LET desc == Wsh_to_string_no_checksum(self)
      checksum == desc_checksum(desc)
  IN IF ~checksum.ok THEN Err(Error("fmt::Error", "", 0))
     ELSE Ok(desc \o <<"#">> \o checksum.val)

\* a parser that drops the checksum suffix without verifying it
Wsh_from_str_unverified(s) ==
  LET h == FirstHash(s)
      desc_str == IF h = 0 THEN s ELSE SubSeq(s, 1, h - 1)
      top == Tree_from_str(desc_str)
      r == Wsh_from_tree(top.val)
  IN IF ~top.ok THEN Traced(top, <<"Tree::from_str">>)
     ELSE Traced(r.out, <<"Tree::from_str", "from_tree">> \o r.calls)

Wsh_from_str(s) ==
  LET desc_str == verify_checksum(s)
      top == Tree_from_str(desc_str.val)
      r == Wsh_from_tree(top.val)
  IN IF ~desc_str.ok THEN Traced(desc_str, <<"verify_checksum">>)
     ELSE IF ~top.ok THEN Traced(top, <<"verify_checksum", "Tree::from_str">>)
     ELSE Traced(r.out, <<"verify_checksum", "Tree::from_str", "from_tree">> \o r.calls)

Wsh_explicit_script(self) == Wsh_inner_script(self)

Wsh_get_satisfaction(self, satisfier) ==
  LET witness == IF self.inner.tag = "SortedMulti"
                 THEN Smv_satisfy(self.inner.smv, satisfier)
                 ELSE Ms_satisfy(self.inner.ms, satisfier)
      witness_script == Wsh_inner_script(self).val
      calls == IF self.inner.tag = "SortedMulti"
               THEN <<"SortedMultiVec::satisfy">> ELSE <<"Miniscript::satisfy">>
  IN IF ~witness.ok THEN Traced(witness, calls)
     ELSE Traced(Ok([witness |-> Append(witness.val, ScriptItem(witness_script)),
                     script_sig |-> <<>>]), calls)

\* an entry point that leaves the witness script off the stack
Wsh_get_satisfaction_mall_no_script(self, satisfier) ==
  LET witness == IF self.inner.tag = "SortedMulti"
                 THEN Smv_satisfy(self.inner.smv, satisfier)
                 ELSE Ms_satisfy_malleable(self.inner.ms, satisfier)
      calls == IF self.inner.tag = "SortedMulti"
               THEN <<"SortedMultiVec::satisfy">>
               ELSE <<"Miniscript::satisfy_malleable">>
  IN IF ~witness.ok THEN Traced(witness, calls)
     ELSE Traced(Ok([witness |-> witness.val, script_sig |-> <<>>]), calls)

Wsh_get_satisfaction_mall(self, satisfier) ==
  LET witness == IF self.inner.tag = "SortedMulti"
                 THEN Smv_satisfy(self.inner.smv, satisfier)
                 ELSE Ms_satisfy_malleable(self.inner.ms, satisfier)
      calls == IF self.inner.tag = "SortedMulti"
               THEN <<"SortedMultiVec::satisfy">>
               ELSE <<"Miniscript::satisfy_malleable">>
  IN IF ~witness.ok THEN Traced(witness, calls)
     ELSE Traced(Ok([witness |-> Append(witness.val,
                                        ScriptItem(Wsh_inner_script(self).val)),
                     script_sig |-> <<>>]), calls)

Wsh_max_satisfaction_weight(self) ==
  LET script_size == IF self.inner.tag = "SortedMulti"
                     THEN Smv_script_size(self.inner.smv)
                     ELSE Ms_script_size(self.inner.ms)
      max_sat_elems == IF self.inner.tag = "SortedMulti"
                       THEN Ok(Smv_max_satisfaction_witness_elements(self.inner.smv))
                       ELSE Ms_max_satisfaction_witness_elements(self.inner.ms)
      max_sat_size == IF self.inner.tag = "SortedMulti"
                      THEN Ok(Smv_max_satisfaction_size(self.inner.smv))
                      ELSE Ms_max_satisfaction_size(self.inner.ms)
  IN IF ~max_sat_elems.ok THEN max_sat_elems
     ELSE IF ~max_sat_size.ok THEN max_sat_size
     ELSE Ok(4 + varint_len(script_size) + script_size
             + varint_len(max_sat_elems.val) + max_sat_size.val)

Wsh_script_code(self) == Wsh_ecdsa_sighash_script_code(self)

Wsh_translate_pk(self, fpk, fpkh) ==
  LET smv == Smv_translate_pk(self.inner.smv, fpk)
      ms == Ms_translate_pk(self.inner.ms, fpk)
  IN IF self.inner.tag = "SortedMulti"
     THEN IF ~smv.ok THEN Traced(smv, <<"SortedMultiVec::translate_pk">>)
          ELSE Traced(Ok(MkWsh(WshInner_SortedMulti(smv.val))),
                      <<"SortedMultiVec::translate_pk">>)
     ELSE IF ~ms.ok THEN Traced(ms, <<"Miniscript::translate_pk">>)
          ELSE Traced(Ok(MkWsh(WshInner_Ms(ms.val))), <<"Miniscript::translate_pk">>)

\* ==================================================================== inputs
SigLens == MinSigLen..73
CompressedKeys == {k \in Keys : ~is_uncompressed(k)}
\* key maps: any image, or a failure, for each compressed key
KeyMaps ==
  {[k \in Keys |-> IF k \in CompressedKeys THEN f[k] ELSE k] :
     f \in [CompressedKeys -> Keys \cup {"err"}]}
IdHash == [k \in Keys |-> k]
FailHash == [k \in Keys |-> "err"]
\* signature sources: nothing, or signatures of one length for some keys
Satisfiers ==
  {[k \in Keys |-> 0]}
  \cup {[k \in Keys |-> IF k \in S THEN n ELSE 0] :
          S \in {Keys, {"K1"}, {"K2", "U1"}}, n \in SigLens}
Miniscripts ==
  { Ms("pk", "K1", <<>>), Ms("pk", "K2", <<>>), Ms("v:pk", "K1", <<>>),
    Ms("and_v", "", <<Ms("v:pk", "K1", <<>>), Ms("pk", "K2", <<>>)>>),
    Ms("and_v", "", <<Ms("v:pk", "K2", <<>>), Ms("pk", "K1", <<>>)>>),
    Ms("and_v", "", <<Ms("v:pk", "K1", <<>>), Ms("v:pk", "K2", <<>>)>>) }
Thresholds == 0..2
KeyLists == SeqsUpTo(CompressedKeys, MaxPks) \cup {<<"U1">>}
Wrap(name, body) == <<name, "(">> \o body \o <<")">>
\* texts tried with every checksum variant
CoreStrings ==
  { Wrap("wpkh", <<"02a1">>),
    Wrap("wsh", Wrap("pk", <<"02a1">>)),
    Wrap("wsh", Wrap("sortedmulti", <<"1", ",", "03b2", ",", "02a1">>)) }
\* texts tried with their correct checksum
OtherStrings ==
  { Wrap("wpkh", <<"04c3">>),
    Wrap("wsh", Wrap("v:pk", <<"02a1">>)),
    Wrap("wsh", Wrap("and_v", Wrap("v:pk", <<"02a1">>) \o <<",">> \o Wrap("pk", <<"03b2">>))),
    Wrap("wsh", Wrap("and_v", Wrap("pk", <<"02a1">>) \o <<",">> \o Wrap("pk", <<"03b2">>))),
    Wrap("wsh", Wrap("pk", <<"04c3">>)),
    Wrap("wsh", Wrap("sortedmulti", <<"2", ",", "02a1">>)),
    Wrap("wsh", Wrap("sortedmulti", <<"pk", ",", "02a1">>)),
    Wrap("wsh", <<"sortedmulti">>),
    Wrap("wsh", Wrap("pk", <<"02a1">>) \o <<",">> \o Wrap("pk", <<"03b2">>)),
    Wrap("wsh", <<"02a1">>),
    Wrap("wpkh", <<"02a1", ",", "03b2">>),
    Wrap("wpkh", Wrap("pk", <<"02a1">>)),
    Wrap("sh", <<"02a1">>),
    Wrap("pk", <<"02a1">>),
    <<"wpkh">>, <<"wsh">>, <<"wsh", "(">> }
Suffixes == [1..2 -> {ChecksumCharset[i] : i \in 1..Len(ChecksumCharset)}]
Differ(a, b) == Cardinality({i \in 1..Len(a) : a[i] # b[i]})
WithChecksum(s) == s \o <<"#">> \o desc_checksum(s).val
\* a text alone, with its checksum, or with one character of the checksum flipped
InputStrings ==
  CoreStrings
  \cup UNION {{s \o <<"#">> \o c :
                 c \in {x \in Suffixes : Differ(x, desc_checksum(s).val) <= 1}} :
              s \in CoreStrings}
  \cup {WithChecksum(s) : s \in OtherStrings}
InputTrees ==
  {Tree_from_str(s).val :
     s \in {x \in CoreStrings \cup OtherStrings : Tree_from_str(x).ok}}

\* ===================================================================== state
VARIABLES
  held,     \* the descriptor value the program holds, if any (a Wpkh or a Wsh)
  origin,   \* how a held Wsh came to be: the operation, and whether that
            \* operation submitted its tree to top_level_checks
  res       \* the last operation: its name, receiver, argument and outcome
vars == <<held, origin, res>>

IsWpkh(d) == "pk" \in DOMAIN d
IsWsh(d) == "inner" \in DOMAIN d
wpkhs == {d \in held : IsWpkh(d)}
wshs == {d \in held : IsWsh(d)}

Res(op, self, arg, out, calls) ==
  [op |-> op, self |-> self, arg |-> arg, out |-> out, calls |-> calls]
NoOrigin == [via |-> "", checked |-> FALSE]

Init ==
  /\ held = {}
  /\ origin = NoOrigin
  /\ res = Res("", {}, <<>>, Ok("unit"), <<>>)

\* an operation that yields a Wpkh: on success the program holds the new value
YieldWpkh(op, self, arg, out, calls) ==
  /\ held' = IF out.ok THEN {out.val} ELSE held
  /\ origin' = IF out.ok THEN NoOrigin ELSE origin
  /\ res' = Res(op, self, arg, out, calls)
\* an operation that yields a Wsh
YieldWsh(op, self, arg, out, calls) ==
  /\ held' = IF out.ok THEN {out.val} ELSE held
  /\ origin' = IF out.ok
               THEN [via |-> op,
                     checked |-> \E i \in 1..Len(calls) : calls[i] = "top_level_checks"]
               ELSE origin
  /\ res' = Res(op, self, arg, out, calls)
\* an operation that only reads its receiver
Observe(op, self, arg, out, calls) ==
  /\ res' = Res(op, self, arg, out, calls)
  /\ UNCHANGED <<held, origin>>

\* ------------------------------------------------------------- Wpkh actions
WpkhNew == \E pk \in Keys : YieldWpkh("Wpkh::new", {}, pk, Wpkh_new(pk), <<>>)
WpkhFromTree ==
  \E top \in InputTrees :
    YieldWpkh("Wpkh::from_tree", {}, top, Wpkh_from_tree(top), <<>>)
WpkhFromStr ==
  \E s \in InputStrings \cup {Wpkh_fmt(w).val : w \in wpkhs} :
    LET r == Wpkh_from_str(s)
    IN YieldWpkh("Wpkh::from_str", held, s, r.out, r.calls)
WpkhTranslatePk ==
  \E self \in wpkhs, fpk \in KeyMaps :
    LET r == Wpkh_translate_pk(self, fpk, FailHash)
    IN YieldWpkh("Wpkh::translate_pk", self, fpk, r.out, r.calls)
WpkhSanityCheck ==
  \E self \in wpkhs :
    Observe("Wpkh::sanity_check", self, <<>>, Wpkh_sanity_check(self), <<>>)
WpkhFmt ==
  \E self \in wpkhs : Observe("Wpkh::fmt", self, <<>>, Wpkh_fmt(self), <<>>)
WpkhScriptPubkey ==
  \E self \in wpkhs :
    Observe("Wpkh::script_pubkey", self, <<>>, Wpkh_script_pubkey(self), <<>>)
WpkhExplicitScript ==
  \E self \in wpkhs :
    Observe("Wpkh::explicit_script", self, <<>>, Wpkh_explicit_script(self), <<>>)
WpkhScriptCode ==
  \E self \in wpkhs :
    Observe("Wpkh::script_code", self, <<>>, Wpkh_script_code(self), <<>>)
WpkhGetSatisfaction ==
  \E self \in wpkhs, satisfier \in Satisfiers :
    Observe("Wpkh::get_satisfaction", self, satisfier,
            Wpkh_get_satisfaction(self, satisfier), <<>>)
WpkhGetSatisfactionMall ==
  \E self \in wpkhs, satisfier \in Satisfiers :
    Observe("Wpkh::get_satisfaction_mall", self, satisfier,
            Wpkh_get_satisfaction_mall(self, satisfier), <<>>)
WpkhMaxSatisfactionWeight ==
  \E self \in wpkhs :
    Observe("Wpkh::max_satisfaction_weight", self, <<>>,
            Wpkh_max_satisfaction_weight(self), <<>>)

\* -------------------------------------------------------------- Wsh actions
WshNew ==
  \E ms \in Miniscripts :
    LET r == Wsh_new(ms) IN YieldWsh("Wsh::new", {}, ms, r.out, r.calls)
WshNewSortedmulti ==
  \E k \in Thresholds, pks \in KeyLists :
    YieldWsh("Wsh::new_sortedmulti", {}, Smv(k, pks), Wsh_new_sortedmulti(k, pks), <<>>)
WshFromTree ==
  \E top \in InputTrees :
    LET r == Wsh_from_tree(top) IN YieldWsh("Wsh::from_tree", {}, top, r.out, r.calls)
WshFromStr ==
  \E s \in InputStrings \cup {Wsh_fmt(w).val : w \in wshs} :
    LET r == Wsh_from_str(s) IN YieldWsh("Wsh::from_str", held, s, r.out, r.calls)
WshTranslatePk ==
  \E self \in wshs, fpk \in KeyMaps :
    LET r == Wsh_translate_pk(self, fpk, IdHash)
    IN YieldWsh("Wsh::translate_pk", self, fpk, r.out, r.calls)
WshSanityCheck ==
  \E self \in wshs :
    Observe("Wsh::sanity_check", self, <<>>, Wsh_sanity_check(self), <<>>)
WshFmt ==
  \E self \in wshs : Observe("Wsh::fmt", self, <<>>, Wsh_fmt(self), <<>>)
WshInnerScript ==
  \E self \in wshs :
    Observe("Wsh::inner_script", self, <<>>, Wsh_inner_script(self), <<>>)
WshExplicitScript ==
  \E self \in wshs :
    Observe("Wsh::explicit_script", self, <<>>, Wsh_explicit_script(self), <<>>)
WshScriptCode ==
  \E self \in wshs :
    Observe("Wsh::script_code", self, <<>>, Wsh_script_code(self), <<>>)
WshGetSatisfaction ==
  \E self \in wshs, satisfier \in Satisfiers :
    LET r == Wsh_get_satisfaction(self, satisfier)
    IN Observe("Wsh::get_satisfaction", self, satisfier, r.out, r.calls)
WshGetSatisfactionMall ==
  \E self \in wshs, satisfier \in Satisfiers :
    LET r == Wsh_get_satisfaction_mall(self, satisfier)
    IN Observe("Wsh::get_satisfaction_mall", self, satisfier, r.out, r.calls)
WshMaxSatisfactionWeight ==
  \E self \in wshs :
    Observe("Wsh::max_satisfaction_weight", self, <<>>,
            Wsh_max_satisfaction_weight(self), <<>>)

Next ==
  \/ WpkhNew \/ WpkhFromTree \/ WpkhFromStr \/ WpkhTranslatePk
  \/ WpkhSanityCheck \/ WpkhFmt \/ WpkhScriptPubkey \/ WpkhExplicitScript
  \/ WpkhScriptCode \/ WpkhGetSatisfaction \/ WpkhGetSatisfactionMall
  \/ WpkhMaxSatisfactionWeight
  \/ WshNew \/ WshNewSortedmulti \/ WshFromTree \/ WshFromStr \/ WshTranslatePk
  \/ WshSanityCheck \/ WshFmt \/ WshInnerScript \/ WshExplicitScript
  \/ WshScriptCode \/ WshGetSatisfaction \/ WshGetSatisfactionMall
  \/ WshMaxSatisfactionWeight

Spec == Init /\ [][Next]_vars

\* ==================================================================== claims
CompressedOnlyErr(pk) == Err(Error("CompressedOnly", KeyToString(pk), 0))
\* texts and trees of a wpkh descriptor over the key pk
WpkhText(pk) == Wrap("wpkh", <<KeyToString(pk)>>)
WpkhTree(pk) == Node("wpkh", <<Leaf(KeyToString(pk))>>)
\* the last operation parsed a wpkh descriptor over an uncompressed key
ParsedUncompressed(pk) ==
  \/ res.op = "Wpkh::from_tree" /\ res.arg = WpkhTree(pk)
  \/ res.op = "Wpkh::from_str" /\ res.arg \in {WpkhText(pk), WithChecksum(WpkhText(pk))}

\* C1: every Wpkh value that exists holds a compressed key and passes
\* sanity_check; Wpkh::new and the parsers fail with CompressedOnly on an
\* uncompressed key and yield no value.
C1_CompressedKeyInvariant ==
  /\ \A w \in wpkhs : ~is_uncompressed(w.pk) /\ Wpkh_sanity_check(w) = Ok("unit")
  /\ res.op = "Wpkh::sanity_check" => res.out = Ok("unit")
  /\ \A pk \in Keys :
       is_uncompressed(pk) /\ ((res.op = "Wpkh::new" /\ res.arg = pk) \/ ParsedUncompressed(pk))
       => res.out = CompressedOnlyErr(pk)
C1_Witness ==
  /\ res.op = "Wpkh::from_str"
  /\ \E pk \in Keys : is_uncompressed(pk) /\ res.arg = WithChecksum(WpkhText(pk))
  /\ ~res.out.ok
  /\ wpkhs # {}

\* C2 as stated: every Wsh value of the Ms variant, however obtained, wraps a
\* tree that was submitted to Segwitv0::top_level_checks by the operation that
\* produced it.
C2_EveryMsSubmitted ==
  \A w \in wshs : w.inner.tag = "Ms" => origin.checked
\* C2 amended: every Wsh value of the Ms variant wraps a tree that passes
\* top_level_checks; Wsh::new and the parsers submit it, translate_pk wraps the
\* translated tree without submitting it.
C2_MsAcceptedOrTranslated ==
  \A w \in wshs :
    w.inner.tag = "Ms" =>
      /\ top_level_checks(w.inner.ms).ok
      /\ origin.via \in {"Wsh::new", "Wsh::from_tree", "Wsh::from_str", "Wsh::translate_pk"}
      /\ origin.checked <=> origin.via # "Wsh::translate_pk"
C2_Witness ==
  /\ res.op = "Wsh::translate_pk"
  /\ res.out.ok
  /\ \E w \in wshs : w.inner.tag = "Ms" /\ res.out.val = w /\ w # res.self
  /\ ~origin.checked

\* C3: parsing the Display string of a valid descriptor value yields an equal
\* value with the same inner variant.
C3_RoundTrip ==
  /\ res.op = "Wpkh::from_str" =>
       \A d \in res.self :
         IsWpkh(d) /\ Wpkh_sanity_check(d).ok /\ Wpkh_fmt(d) = Ok(res.arg)
         => res.out = Ok(d)
  /\ res.op = "Wsh::from_str" =>
       \A d \in res.self :
         IsWsh(d) /\ Wsh_sanity_check(d).ok /\ Wsh_fmt(d) = Ok(res.arg)
         => res.out = Ok(d) /\ res.out.val.inner.tag = d.inner.tag
C3_Witness ==
  /\ res.op = "Wsh::from_str"
  /\ \E d \in res.self :
       /\ IsWsh(d) /\ d.inner.tag = "SortedMulti" /\ Len(d.inner.smv.pks) = 2
       /\ Wsh_fmt(d) = Ok(res.arg)
       /\ held = {d}

\* C4: the script code of a Wpkh is the legacy P2PKH script of its key, never
\* its script_pubkey, while its explicit_script is its script_pubkey; the
\* script code of a Wsh is its inner_script and its explicit_script.
C4_ScriptCodeAsymmetry ==
  /\ res.op = "Wpkh::script_code" =>
       /\ res.out = Ok(<<Op("OP_DUP"), Op("OP_HASH160"), PushHash160(res.self.pk),
                         Op("OP_EQUALVERIFY"), Op("OP_CHECKSIG")>>)
       /\ res.out # Wpkh_script_pubkey(res.self)
  /\ res.op = "Wpkh::script_pubkey" =>
       res.out.ok /\ res.out # Wpkh_script_code(res.self)
  /\ res.op = "Wpkh::explicit_script" =>
       res.out.ok /\ res.out = Wpkh_script_pubkey(res.self)
  /\ res.op = "Wsh::script_code" =>
       /\ res.out.ok
       /\ res.out = Wsh_inner_script(res.self)
       /\ res.out = Wsh_explicit_script(res.self)
  /\ res.op \in {"Wsh::inner_script", "Wsh::explicit_script"} =>
       res.out = Wsh_script_code(res.self)
C4_Witness ==
  /\ res.op = "Wpkh::script_code"
  /\ res.out.ok
  /\ Len(res.out.val) = 5

SatisfactionOps ==
  {"Wpkh::get_satisfaction", "Wpkh::get_satisfaction_mall",
   "Wsh::get_satisfaction", "Wsh::get_satisfaction_mall"}
\* the weight of a satisfaction: 4 for the empty scriptSig, plus the witness
Weight(sat) == 4 + WitnessSize(sat.witness)
MaxWeight(d) ==
  IF IsWpkh(d) THEN Wpkh_max_satisfaction_weight(d) ELSE Wsh_max_satisfaction_weight(d)
SanityCheck(d) == IF IsWpkh(d) THEN Wpkh_sanity_check(d) ELSE Wsh_sanity_check(d)
LongestSig(witness) ==
  IF \E i \in 1..Len(witness) : witness[i].kind = "sig"
  THEN CHOOSE n \in SigLens :
         /\ \E i \in 1..Len(witness) : witness[i].kind = "sig" /\ witness[i].len = n
         /\ \A i \in 1..Len(witness) : witness[i].kind = "sig" => witness[i].len <= n
  ELSE 0

\* C5 as stated: the weight of any satisfaction get_satisfaction returns, with
\* signatures of up to 73 bytes, is at most max_satisfaction_weight().
C5_WeightBound ==
  res.op \in SatisfactionOps /\ res.out.ok
  => MaxWeight(res.self).ok /\ Weight(res.out.val) <= MaxWeight(res.self).val
\* C5 amended: for a descriptor that passes sanity_check and signatures of up
\* to 72 bytes (73 with their length prefix), the weight of any satisfaction
\* get_satisfaction returns is at most max_satisfaction_weight().
C5_WeightBoundShortSigs ==
  /\ res.op \in SatisfactionOps
  /\ res.out.ok
  /\ SanityCheck(res.self).ok
  /\ LongestSig(res.out.val.witness) <= 72
  => MaxWeight(res.self).ok /\ Weight(res.out.val) <= MaxWeight(res.self).val
C5_Witness ==
  /\ res.op = "Wpkh::get_satisfaction"
  /\ res.out.ok
  /\ LongestSig(res.out.val.witness) = 72
  /\ Weight(res.out.val) = MaxWeight(res.self).val

\* C6: both Wpkh satisfaction entry points return the same result: the
\* two-element witness [signature, compressed key] with an empty script-sig
\* when the source has a signature, MissingSig(key) when it has none; never a
\* panic, never a shorter witness.
C6_WpkhSatisfaction ==
  res.op \in {"Wpkh::get_satisfaction", "Wpkh::get_satisfaction_mall"} =>
    LET pk == res.self.pk
        n == res.arg[pk]
    IN /\ n # 0 =>
            res.out = Ok([witness |-> <<Item("sig", pk, n, <<>>), Item("pubkey", pk, 33, <<>>)>>,
                          script_sig |-> <<>>])
       /\ n = 0 => res.out = Err(Error("MissingSig", KeyToString(pk), 0))
       /\ ~IsPanic(res.out)
       /\ res.out.ok => Len(res.out.val.witness) = 2
       /\ res.out = Wpkh_get_satisfaction(res.self, res.arg)
       /\ res.out = Wpkh_get_satisfaction_mall(res.self, res.arg)
C6_Witness ==
  /\ res.op = "Wpkh::get_satisfaction_mall"
  /\ res.arg[res.self.pk] = 0
  /\ IsErr(res.out)

\* the suffix after '#' is not the checksum of the text before it
ChecksumMismatch(s) ==
  /\ \E i \in 1..Len(s) : s[i] = "#"
  /\ LET h == CHOOSE i \in 1..Len(s) : s[i] = "#" /\ \A j \in 1..(i - 1) : s[j] # "#"
     IN SubSeq(s, h + 1, Len(s)) # desc_checksum(SubSeq(s, 1, h - 1)).val
\* C7: from_str rejects a string whose checksum does not match with the
\* checksum error, before the expression parser or from_tree is invoked, and
\* produces no value.
C7_ChecksumFirst ==
  res.op \in {"Wsh::from_str", "Wpkh::from_str"} /\ ChecksumMismatch(res.arg) =>
    /\ res.out = Err(Error("BadDescriptor", "Invalid checksum", 0))
    /\ res.calls = <<"verify_checksum">>
    /\ held = res.self
C7_Witness ==
  /\ res.op = "Wsh::from_str"
  /\ ChecksumMismatch(res.arg)
  /\ \E s \in CoreStrings :
       /\ SubSeq(res.arg, 1, Len(s)) = s
       /\ Differ(SubSeq(res.arg, Len(s) + 2, Len(res.arg)), desc_checksum(s).val) = 1
  /\ ~res.out.ok

\* what Wpkh::translate_pk returns when the key map fails or maps to a
\* compressed key, and that the key-hash map is never invoked
TranslateTyped ==
  LET q == res.arg[res.self.pk]
  IN /\ q = "err" => res.out = KeyMapErr(res.self.pk)
     /\ q # "err" /\ ~is_uncompressed(q) => res.out = Ok(MkWpkh(q))
     /\ \A i \in 1..Len(res.calls) : res.calls[i] # "fpkh"
\* C8 as stated: Wpkh::translate_pk returns a typed result in every case: an
\* error result, and no value, when the mapped key is uncompressed.
C8_TranslateTypedResult ==
  res.op = "Wpkh::translate_pk" =>
    /\ TranslateTyped
    /\ LET q == res.arg[res.self.pk]
       IN q # "err" /\ is_uncompressed(q) => IsErr(res.out) /\ held = {res.self}
\* C8 amended: Wpkh::translate_pk returns the key map's error when the key map
\* fails, panics (producing no Wpkh value) when the mapped key is
\* uncompressed, and otherwise returns Ok with a Wpkh over the mapped key; the
\* key-hash map is never invoked.
C8_TranslatePanics ==
  res.op = "Wpkh::translate_pk" =>
    /\ TranslateTyped
    /\ LET q == res.arg[res.self.pk]
       IN q # "err" /\ is_uncompressed(q) =>
            res.out = Panic("Uncompressed keys in Wpkh") /\ held = {res.self}
C8_Witness ==
  /\ res.op = "Wpkh::translate_pk"
  /\ IsPanic(res.out)
  /\ is_uncompressed(res.arg[res.self.pk])

\* C9: a successful Wsh satisfaction is the stack of the active variant
\* (satisfy, or satisfy_malleable for Ms through get_satisfaction_mall)
\* followed by the bytes of inner_script(), with an empty script-sig; a failing
\* one returns the variant's error; for SortedMulti both entry points agree.
C9_WshSatisfactionShape ==
  res.op \in {"Wsh::get_satisfaction", "Wsh::get_satisfaction_mall"} =>
    LET d == res.self
        sorted == d.inner.tag = "SortedMulti"
        mall == res.op = "Wsh::get_satisfaction_mall"
        stack == IF sorted THEN Smv_satisfy(d.inner.smv, res.arg)
                 ELSE IF mall THEN Ms_satisfy_malleable(d.inner.ms, res.arg)
                 ELSE Ms_satisfy(d.inner.ms, res.arg)
        script == IF sorted THEN Smv_encode(d.inner.smv) ELSE Ms_encode(d.inner.ms)
    IN /\ res.calls = IF sorted THEN <<"SortedMultiVec::satisfy">>
                      ELSE IF mall THEN <<"Miniscript::satisfy_malleable">>
                      ELSE <<"Miniscript::satisfy">>
       /\ stack.ok =>
            /\ res.out.ok
            /\ res.out.val.script_sig = <<>>
            /\ res.out.val.witness
                 = stack.val \o <<Item("script", "", ScriptLen(script), script)>>
       /\ ~stack.ok => res.out = stack
       /\ sorted => /\ res.out = Wsh_get_satisfaction(d, res.arg).out
                    /\ res.out = Wsh_get_satisfaction_mall(d, res.arg).out
C9_Witness ==
  /\ res.op = "Wsh::get_satisfaction_mall"
  /\ res.self.inner.tag = "Ms"
  /\ res.out.ok
  /\ Len(res.out.val.witness) = 3

\* C10: from_tree accepts only its own name with exactly one argument and
\* otherwise returns Unexpected naming the node and its argument count; a
\* sortedmulti argument of wsh yields the SortedMulti variant or the
\* sorted-multisig parser's error, any other argument yields Ms only after
\* top_level_checks passes.
C10_StrictTreeParsing ==
  /\ res.op = "Wpkh::from_tree" =>
       LET top == res.arg
       IN /\ res.out.ok => top.name = "wpkh" /\ Len(top.args) = 1
          /\ ~(top.name = "wpkh" /\ Len(top.args) = 1) =>
               res.out = Err(Error("Unexpected", top.name, Len(top.args)))
  /\ res.op = "Wsh::from_tree" =>
       LET top == res.arg
       IN /\ res.out.ok => top.name = "wsh" /\ Len(top.args) = 1
          /\ ~(top.name = "wsh" /\ Len(top.args) = 1) =>
               /\ res.out = Err(Error("Unexpected", top.name, Len(top.args)))
               /\ res.calls = <<>>
          /\ top.name = "wsh" /\ Len(top.args) = 1 /\ top.args[1].name = "sortedmulti" =>
               /\ res.out.ok => res.out.val.inner.tag = "SortedMulti"
               /\ ~res.out.ok => res.out = SortedMultiVec_from_tree(top.args[1])
               /\ res.calls = <<"SortedMultiVec::from_tree">>
          /\ top.name = "wsh" /\ Len(top.args) = 1 /\ top.args[1].name # "sortedmulti"
             /\ res.out.ok =>
               /\ res.out.val.inner.tag = "Ms"
               /\ top_level_checks(res.out.val.inner.ms).ok
               /\ res.calls = <<"Miniscript::from_tree", "top_level_checks">>
C10_Witness ==
  /\ res.op = "Wpkh::from_tree"
  /\ res.arg.name = "wpkh"
  /\ Len(res.arg.args) = 2
  /\ IsErr(res.out)
  /\ held # {}

====
